---- MODULE Spec2Model ----
(***************************************************************************)
(* Model of the video indexing application: video_index/models.py          *)
(* (TimeSpan, SegmentNode, ChapterNode, VideoAnalysisResult), the frame    *)
(* pipeline of video_index/indexer_ollama.py, the single-shot indexer of   *)
(* video_index/indexer.py, the query dispatch of video_index/agent.py and  *)
(* the session cache of app.py.                                            *)
(*                                                                         *)
(* Text is modelled as a sequence of one-character tokens.  "LF" stands    *)
(* for the newline character.  CodeOrder lists the characters in code      *)
(* point order, which is the order Python compares str values by.          *)
(***************************************************************************)
EXTENDS Integers, Sequences, FiniteSets, TLC

VARIABLES
    ts_start,      \* TimeSpan(start_time=..., end_time=...): the start argument
    ts_end,        \* ... and the end argument
    ts_result,     \* "pending", or the outcome of the construction
    tr_root,       \* a content tree: the VideoAnalysisResult at its root
    tr_pc,         \* "empty", "indexed" (tr_root holds a tree) or "compiled"
    tr_agent,      \* the Agent that call returned
    dp_stream,     \* call_agent_async: the events runner.run_async has yielded
    dp_final_text, \* ... its local final_text
    dp_pc,         \* ... "consuming", "returned" or "raised"
    dp_result,     \* ... the text it returned
    ix_pc,         \* indexing: "idle", "extracted", "loop", "built", "returned", "raised"
    ix_entry,      \* ... what was called: "none", "index_video_ollama",
                   \*     "build_video_structure" or "index_video"
    ix_duration,   \* ... the clip duration, in half seconds
    ix_frames,     \* ... frames_analysis: a timestamp and an analysis per frame
    ix_i,          \* ... build_video_structure: frames handled by the loop so far
    ix_segments,   \* ... its local segments
    ix_current,    \* ... its local current_chapter_segments
    ix_chapters,   \* ... its local chapters
    ix_result,     \* ... the VideoAnalysisResult produced
    ix_error,      \* ... the exception raised, "" if none
    ss_state,      \* app.py: st.session_state
    ss_file,       \* ... the file in the uploader, "None" if there is none
    ss_ollama,     \* ... the Ollama toggle
    ss_builds,     \* ... how many trees the indexers have returned to the script
    ss_served,     \* ... what the last script run rendered
    hk_pc,         \* a segment agent's hook: "unbound", "idle" or "ready"
    hk_hook,       \* ... the AttachVideoToLlmRequestCallback of the agent
    hk_artifact,   \* ... the bytes saved as the artifact "uploaded_video"
    hk_request,    \* ... llm_request.contents of the model call being prepared
    hk_sent        \* ... the contents of the requests sent to the model so far

timeVars == <<ts_start, ts_end, ts_result>>

treeVars == <<tr_root, tr_pc, tr_agent>>

dispatchVars == <<dp_stream, dp_final_text, dp_pc, dp_result>>

indexVars ==
    <<ix_pc, ix_entry, ix_duration, ix_frames, ix_i, ix_segments, ix_current,
      ix_chapters, ix_result, ix_error>>

sessionVars == <<ss_state, ss_file, ss_ollama, ss_builds, ss_served>>

hookVars == <<hk_pc, hk_hook, hk_artifact, hk_request, hk_sent>>

vars == <<timeVars, treeVars, dispatchVars, indexVars, sessionVars, hookVars>>

----------------------------------------------------------------------------
(* Characters and strings                                                  *)

Digits == <<"0", "1", "2", "3", "4", "5", "6", "7", "8", "9">>

CodeOrder == <<"LF", "0", "1", "2", "3", "4", "5", "6", "7", "8", "9", ":", "_", "x">>

Ord(c) == CHOOSE i \in 1..Len(CodeOrder) : CodeOrder[i] = c

IsDigit(c) == \E i \in 1..Len(Digits) : Digits[i] = c

DigitValue(c) == (CHOOSE i \in 1..Len(Digits) : Digits[i] = c) - 1

\* Python's str < str: lexicographic by code point, a proper prefix is smaller.
RECURSIVE StrLess(_, _)
StrLess(a, b) ==
    IF Len(b) = 0 THEN FALSE
    ELSE IF Len(a) = 0 THEN TRUE
    ELSE IF Ord(Head(a)) < Ord(Head(b)) THEN TRUE
    ELSE IF Ord(Head(a)) > Ord(Head(b)) THEN FALSE
    ELSE StrLess(Tail(a), Tail(b))

StrGeq(a, b) == ~StrLess(a, b)

\* min(...) and max(...) of Python over a non-empty set of strings
StrMin(S) == CHOOSE a \in S : \A b \in S : ~StrLess(b, a)

StrMax(S) == CHOOSE a \in S : \A b \in S : ~StrLess(a, b)

\* f"{n:02d}": at least two digits, more when n >= 100
RECURSIVE DecimalDigits(_)
DecimalDigits(n) ==
    IF n < 10 THEN <<Digits[n + 1]>>
    ELSE DecimalDigits(n \div 10) \o <<Digits[(n % 10) + 1]>>

Format02d(n) == IF n < 10 THEN <<"0">> \o DecimalDigits(n) ELSE DecimalDigits(n)

\* f"{minutes:02d}:{seconds:02d}"
FormatTimestamp(minutes, seconds) == Format02d(minutes) \o <<":">> \o Format02d(seconds)

----------------------------------------------------------------------------
(* models.py: TimeSpan                                                     *)

\* re.match(r"^\d{2}:\d{2}$", v): two digits, a colon, two digits; "$" also
\* matches just before one trailing newline.
MatchesTimeFormat(v) ==
    /\ Len(v) \in {5, 6}
    /\ IsDigit(v[1]) /\ IsDigit(v[2])
    /\ v[3] = ":"
    /\ IsDigit(v[4]) /\ IsDigit(v[5])
    /\ (Len(v) = 6 => v[6] = "LF")

\* validate_time_format on both fields: any failure is a validation error
validate_time_format(start_time, end_time) ==
    MatchesTimeFormat(start_time) /\ MatchesTimeFormat(end_time)

\* validate_time_order: raises when self.start_time >= self.end_time (str order)
validate_time_order(start_time, end_time) == ~StrGeq(start_time, end_time)

TimeSpanValue(start_time, end_time) == [start_time |-> start_time, end_time |-> end_time]

NoTimeSpan == TimeSpanValue(<<>>, <<>>)

\* TimeSpan(start_time=..., end_time=...): the field validators run first, the
\* model validator only when both fields passed.
TimeSpan(start_time, end_time) ==
    IF ~validate_time_format(start_time, end_time)
    THEN [status |-> "ValidationError", value |-> NoTimeSpan]
    ELSE IF ~validate_time_order(start_time, end_time)
    THEN [status |-> "ValidationError", value |-> NoTimeSpan]
    ELSE [status |-> "ok", value |-> TimeSpanValue(start_time, end_time)]

----------------------------------------------------------------------------
(* callbacks.py: the conversion of a timestamp to seconds                  *)

\* str.split(":")
RECURSIVE SplitColon(_)
SplitColon(s) ==
    IF \A i \in 1..Len(s) : s[i] # ":" THEN <<s>>
    ELSE LET k == CHOOSE i \in 1..Len(s) :
                      s[i] = ":" /\ \A j \in 1..(i - 1) : s[j] # ":"
         IN  <<SubSeq(s, 1, k - 1)>> \o SplitColon(SubSeq(s, k + 1, Len(s)))

\* int(text) of a run of decimal digits; surrounding whitespace is ignored
RECURSIVE DigitsToInt(_)
DigitsToInt(d) ==
    IF Len(d) = 0 THEN 0
    ELSE 10 * DigitsToInt(SubSeq(d, 1, Len(d) - 1)) + DigitValue(d[Len(d)])

StripWhitespace(s) == SelectSeq(s, LAMBDA c : c # "LF")

ParseInt(s) == DigitsToInt(StripWhitespace(s))

\* int(t.split(":")[0]) * 60 + int(t.split(":")[1])
ToSeconds(t) == ParseInt(SplitColon(t)[1]) * 60 + ParseInt(SplitColon(t)[2])

----------------------------------------------------------------------------
(* Timestamps tried                                                        *)

MaxMinutes == 1

SecondsTried == {0, 1, 10, 59, 60, 99}

WellFormedTimes ==
    {FormatTimestamp(m, s) : m \in 0..MaxMinutes, s \in SecondsTried}

MalformedTimes ==
    { <<"0", ":", "1", "0">>,
      <<"0", "0", ":", "1", "x">>,
      <<"0", "0", "_", "1", "0">>,
      <<"0", "0", ":", "1", "0", "0">>,
      <<"0", "0", ":", "1", "0", "LF">>,
      <<"0", "0", ":", "2", "0", "LF">>,
      <<>> }

TimeStrings == WellFormedTimes \cup MalformedTimes

----------------------------------------------------------------------------
(* Specification SpecTime: constructing TimeSpan values                    *)

ConstructTimeSpan ==
    \E s \in TimeStrings, e \in TimeStrings :
        /\ ts_start' = s
        /\ ts_end' = e
        /\ ts_result' = TimeSpan(s, e)
        /\ UNCHANGED <<treeVars, dispatchVars, indexVars, sessionVars, hookVars>>


\* The MM:SS shape as the specification words it: exactly two digits, a
\* colon, two digits.
IsMMSS(v) ==
    /\ Len(v) = 5
    /\ IsDigit(v[1]) /\ IsDigit(v[2]) /\ v[3] = ":" /\ IsDigit(v[4]) /\ IsDigit(v[5])

\* C5: construction succeeds exactly when both strings have the MM:SS shape
\* and start is strictly before end when both are compared as seconds
\* (minutes*60+seconds); every other pair is rejected.
C5_SucceedsIffChronological ==
    ts_result.status # "pending" =>
        ( ts_result.status = "ok"
          <=> ( /\ IsMMSS(ts_start) /\ IsMMSS(ts_end)
                /\ ToSeconds(ts_start) < ToSeconds(ts_end) ) )

----------------------------------------------------------------------------
(* models.py: SegmentNode, ChapterNode, VideoAnalysisResult                *)

SegmentNode(node_type, title, description, time_span) ==
    [cls |-> "SegmentNode", node_type |-> node_type, title |-> title,
     description |-> description, time_span |-> time_span]

ChapterNode(node_type, title, summary, children) ==
    [cls |-> "ChapterNode", node_type |-> node_type, title |-> title,
     summary |-> summary, children |-> children]

VideoAnalysisResult(video_title, overview, children) ==
    [cls |-> "VideoAnalysisResult", video_title |-> video_title,
     overview |-> overview, children |-> children]

IsContainer(node) == node.cls \in {"ChapterNode", "VideoAnalysisResult"}

Children(node) == IF IsContainer(node) THEN node.children ELSE <<>>

\* The computed field time_span of a container whose children have the spans
\* child_spans: TimeSpan("00:00", "00:01") without children, else the str min
\* of the starts and the str max of the ends, validated again by TimeSpan.
derived_time_span(child_spans) ==
    IF Len(child_spans) = 0
    THEN TimeSpan(FormatTimestamp(0, 0), FormatTimestamp(0, 1))
    ELSE LET min_start_time ==
                 StrMin({child_spans[i].start_time : i \in 1..Len(child_spans)})
             max_end_time ==
                 StrMax({child_spans[i].end_time : i \in 1..Len(child_spans)})
         IN  TimeSpan(min_start_time, max_end_time)

\* node.time_span: stored in a SegmentNode, computed on every read elsewhere
RECURSIVE time_span(_)
time_span(node) ==
    IF node.cls = "SegmentNode" THEN node.time_span
    ELSE derived_time_span(
             [i \in 1..Len(node.children) |-> time_span(node.children[i])]).value

\* str.replace(":", "")
ReplaceColon(s) == SelectSeq(s, LAMBDA c : c # ":")

\* f"{self.node_type}_{start}_{end}", and f"Video_{start}_{end}" for the root
format_id(tag, span) ==
    tag \o <<"_">> \o ReplaceColon(span.start_time)
        \o <<"_">> \o ReplaceColon(span.end_time)

id(node) ==
    IF node.cls = "VideoAnalysisResult"
    THEN format_id(<<"Video">>, time_span(node))
    ELSE format_id(node.node_type, time_span(node))

----------------------------------------------------------------------------
(* models.py: to_agent                                                     *)

\* a hook bound to the start of the clip instead of the start given
AttachVideoToLlmRequestCallback_from_clip_start(start_time, end_time) ==
    [bound |-> TRUE, start_time |-> FormatTimestamp(0, 0), end_time |-> end_time]

\* AttachVideoToLlmRequestCallback(start_time=..., end_time=...)
AttachVideoToLlmRequestCallback(start_time, end_time) ==
    [bound |-> TRUE, start_time |-> start_time, end_time |-> end_time]

NoCallback == [bound |-> FALSE, start_time |-> <<>>, end_time |-> <<>>]

AgentTool(agent) == [agent |-> agent]

\* [AgentTool(agent=child.to_agent()) for child in self.children], given the
\* children's compiled agents in the order of self.children
agent_tools_reversed(compiled) ==
    [i \in 1..Len(compiled) |-> AgentTool(compiled[Len(compiled) + 1 - i])]

agent_tools(compiled) ==
    [i \in 1..Len(compiled) |-> AgentTool(compiled[i])]

\* one line of children_info
child_info(child) ==
    [start_time |-> time_span(child).start_time,
     end_time |-> time_span(child).end_time,
     title |-> child.title,
     text |-> IF child.cls = "ChapterNode" THEN child.summary ELSE child.description]

\* The Agent(...) a node builds.  title and time_range are the parts of the
\* description string, scope and children_info those of the instruction.
RECURSIVE to_agent(_)
to_agent(node) ==
    IF node.cls = "SegmentNode"
    THEN [name |-> id(node),
          title |-> node.title,
          time_range |-> <<node.time_span.start_time, node.time_span.end_time>>,
          scope |-> node.description,
          children_info |-> <<>>,
          before_model_callback |->
              AttachVideoToLlmRequestCallback(node.time_span.start_time,
                                              node.time_span.end_time),
          output_key |-> id(node) \o <<"_response">>,
          tools |-> <<>>]
    ELSE [name |-> id(node),
          title |-> IF node.cls = "ChapterNode" THEN node.title ELSE node.video_title,
          time_range |-> <<time_span(node).start_time, time_span(node).end_time>>,
          scope |-> IF node.cls = "ChapterNode" THEN node.summary ELSE node.overview,
          children_info |->
              [i \in 1..Len(node.children) |-> child_info(node.children[i])],
          before_model_callback |-> NoCallback,
          output_key |-> id(node) \o <<"_response">>,
          tools |-> agent_tools(
              [i \in 1..Len(node.children) |-> to_agent(node.children[i])])]

NoAgent ==
    [name |-> <<>>, title |-> <<>>, time_range |-> <<>>, scope |-> <<>>,
     children_info |-> <<>>, before_model_callback |-> NoCallback,
     output_key |-> <<>>, tools |-> <<>>]

----------------------------------------------------------------------------
(* Content trees tried                                                     *)

MaxChapterChildren == 2

MaxRootChildren == 2

SeqsUpTo(S, n) == UNION {[1..k -> S] : k \in 0..n}

SpanOf(s, e) == TimeSpan(s, e).value

\* Two segments with one span, whose seconds field exceeds 59, and different
\* texts, one whose node_type was set by the backend, and one whose timestamps
\* end in a newline: all of them pass TimeSpan's validators.
SegmentsTried ==
    { SegmentNode(<<"Segment">>, <<"t1">>, <<"d1">>,
                  SpanOf(FormatTimestamp(0, 10), FormatTimestamp(0, 99))),
      SegmentNode(<<"Segment">>, <<"t2">>, <<"d2">>,
                  SpanOf(FormatTimestamp(0, 10), FormatTimestamp(0, 99))),
      SegmentNode(<<"Scene">>, <<"t3">>, <<"d3">>,
                  SpanOf(FormatTimestamp(1, 0), FormatTimestamp(1, 10))),
      SegmentNode(<<"Segment">>, <<"t4">>, <<"d4">>,
                  SpanOf(FormatTimestamp(0, 10) \o <<"LF">>,
                         FormatTimestamp(0, 59) \o <<"LF">>)) }

\* The segments placed under a chapter: the two whose spans differ, so that a
\* chapter's derived span and the order of its children can be told apart
ChapterSegmentsTried ==
    {seg \in SegmentsTried : seg.title \in {<<"t1">>, <<"t3">>}}

ChaptersTried ==
    { ChapterNode(<<"Chapter">>, <<"c">>, <<"s">>, ch) :
          ch \in SeqsUpTo(ChapterSegmentsTried, MaxChapterChildren) }

TreesTried ==
    { VideoAnalysisResult(<<"v">>, <<"o">>, ch) :
          ch \in SeqsUpTo(SegmentsTried \cup ChaptersTried, MaxRootChildren) }

----------------------------------------------------------------------------
(* Specification SpecTree: a content tree and its compilation              *)

\* VideoAnalysisResult(...) validated from the data of a backend: a tree
\* whose every TimeSpan passed the validators
ReceiveTree ==
    /\ tr_pc = "empty"
    /\ tr_root' \in TreesTried
    /\ tr_pc' = "indexed"
    /\ UNCHANGED tr_agent
    /\ UNCHANGED <<timeVars, dispatchVars, indexVars, sessionVars, hookVars>>

\* indexed_video.to_agent()
Compile ==
    /\ tr_pc = "indexed"
    /\ tr_agent' = to_agent(tr_root)
    /\ tr_pc' = "compiled"
    /\ UNCHANGED tr_root
    /\ UNCHANGED <<timeVars, dispatchVars, indexVars, sessionVars, hookVars>>

TreeNext == ReceiveTree \/ Compile

----------------------------------------------------------------------------
(* Claims about content trees (SpecTree)                                   *)

NodeTitle(node) == IF node.cls = "VideoAnalysisResult" THEN node.video_title ELSE node.title

RECURSIVE NodesOf(_)
NodesOf(node) ==
    {node} \cup UNION {NodesOf(Children(node)[i]) : i \in 1..Len(Children(node))}

\* the nodes in the order a depth-first walk from the root meets them
RECURSIVE TreeWalk(_, _)
TreeWalk(node, depth) ==
    LET RECURSIVE Below(_)
        Below(i) ==
            IF i > Len(Children(node)) THEN <<>>
            ELSE TreeWalk(Children(node)[i], depth + 1) \o Below(i + 1)
    IN  <<[title |-> NodeTitle(node), depth |-> depth]>> \o Below(1)

\* the agents in the order a depth-first walk through the tools meets them
RECURSIVE AgentWalk(_, _)
AgentWalk(agent, depth) ==
    LET RECURSIVE Below(_)
        Below(i) ==
            IF i > Len(agent.tools) THEN <<>>
            ELSE AgentWalk(agent.tools[i].agent, depth + 1) \o Below(i + 1)
    IN  <<[title |-> agent.title, depth |-> depth]>> \o Below(1)

\* agent is the agent of node, and its i-th tool wraps the agent of the i-th child
RECURSIVE Mirrors(_, _)
Mirrors(node, agent) ==
    /\ agent.title = NodeTitle(node)
    /\ agent.name = id(node)
    /\ Len(agent.tools) = Len(Children(node))
    /\ \A i \in 1..Len(Children(node)) :
           Mirrors(Children(node)[i], agent.tools[i].agent)

\* C1: the compiled agent tree has the shape of the content tree: one tool per
\* immediate child, the i-th tool wrapping the agent of the i-th child, so a
\* walk through the tools meets every node once, under the same parent; and
\* compiling leaves the content tree as it was.
C1_AgentTreeMirrorsContentTree ==
    /\ [](tr_pc = "compiled" =>
            /\ Mirrors(tr_root, tr_agent)
            /\ AgentWalk(tr_agent, 0) = TreeWalk(tr_root, 0))
    /\ [][tr_pc' = "compiled" => tr_root' = tr_root]_treeVars

\* a compiled tree with two root children, the first a chapter of two
\* different segments
C1_Witness ==
    /\ tr_pc = "compiled"
    /\ Len(tr_root.children) = 2
    /\ tr_root.children[1].cls = "ChapterNode"
    /\ Len(tr_root.children[1].children) = 2
    /\ tr_root.children[1].children[1] # tr_root.children[1].children[2]
    /\ tr_root.children[2] # tr_root.children[1]
    /\ Len(tr_agent.tools) = 2

SecondsMin(S) == CHOOSE a \in S : \A b \in S : a <= b

SecondsMax(S) == CHOOSE a \in S : \A b \in S : a >= b

\* C6: the derived span of a container with children starts at the earliest
\* start and ends at the latest end of its immediate children, in seconds;
\* without children it is 00:00-00:01.
C6_DerivedSpanIsChronological ==
    \A node \in NodesOf(tr_root) :
        IsContainer(node) =>
            IF Len(node.children) = 0
            THEN time_span(node) =
                     TimeSpanValue(FormatTimestamp(0, 0), FormatTimestamp(0, 1))
            ELSE LET spans == {time_span(node.children[i]) : i \in 1..Len(node.children)}
                 IN  /\ ToSeconds(time_span(node).start_time) =
                            SecondsMin({ToSeconds(s.start_time) : s \in spans})
                     /\ ToSeconds(time_span(node).end_time) =
                            SecondsMax({ToSeconds(s.end_time) : s \in spans})

KindTag(node) == IF node.cls = "VideoAnalysisResult" THEN <<"Video">> ELSE node.node_type

DigitsOf(s) == SelectSeq(s, IsDigit)

\* C10: the id of a node is its kind tag followed by the digits of its span's
\* start and of its end, so two nodes with one kind tag and one span have one
\* id, whatever their other fields.
C10_IdIsTagAndDigits ==
    /\ \A node \in NodesOf(tr_root) :
           id(node) = KindTag(node) \o <<"_">> \o DigitsOf(time_span(node).start_time)
                          \o <<"_">> \o DigitsOf(time_span(node).end_time)
    /\ \A m, n \in NodesOf(tr_root) :
           (KindTag(m) = KindTag(n) /\ time_span(m) = time_span(n)) => id(m) = id(n)

\* the second half of C10 alone: one kind tag and one span give one id
IdDependsOnTagAndSpanOnly ==
    \A m, n \in NodesOf(tr_root) :
        (KindTag(m) = KindTag(n) /\ time_span(m) = time_span(n)) => id(m) = id(n)

\* every derived span passes TimeSpan's validators
DerivedSpansValid ==
    \A node \in NodesOf(tr_root) :
        IsContainer(node) =>
            derived_time_span(
                [i \in 1..Len(node.children) |-> time_span(node.children[i])]).status = "ok"

\* the three kinds of node the compiler is specified for
KnownKind(node) ==
    \/ node.cls = "VideoAnalysisResult"
    \/ node.node_type \in {<<"Segment">>, <<"Chapter">>}

\* C11: a tree holding a node whose kind is none of Segment, Chapter or
\* AnalysisResult is never compiled: no agent is produced for it.
C11_UnknownKindFailsCompilation ==
    tr_pc = "compiled" => \A node \in NodesOf(tr_root) : KnownKind(node)

\* agent has the capability of node's class, and so have the agents below it:
\* a segment's agent has no tools and a hook bound to the segment's own span,
\* a container's agent has the agents of its children as its tools, in order
RECURSIVE HasCapabilityOf(_, _)
HasCapabilityOf(agent, node) ==
    IF node.cls = "SegmentNode"
    THEN /\ agent.tools = <<>>
         /\ agent.before_model_callback.bound
         /\ agent.before_model_callback.start_time = node.time_span.start_time
         /\ agent.before_model_callback.end_time = node.time_span.end_time
    ELSE /\ Len(agent.tools) = Len(node.children)
         /\ \A i \in 1..Len(node.children) :
                /\ agent.tools[i].agent = to_agent(node.children[i])
                /\ HasCapabilityOf(agent.tools[i].agent, node.children[i])

\* C12: in a compiled tree every segment's agent has no tools and a hook
\* bound to that segment's own (start, end), and every container's agent has
\* its children's agents as tools.
C12_LeafAndContainerCapability ==
    tr_pc = "compiled" => HasCapabilityOf(tr_agent, tr_root)

\* a compiled tree with a segment at the root and, beside it, a chapter of
\* two segments with different spans
C12_Witness ==
    /\ tr_pc = "compiled"
    /\ \E i, j \in 1..Len(tr_root.children) :
           /\ tr_root.children[i].cls = "SegmentNode"
           /\ tr_root.children[j].cls = "ChapterNode"
           /\ Len(tr_root.children[j].children) = 2
           /\ tr_root.children[j].children[1].time_span
                  # tr_root.children[j].children[2].time_span
           /\ tr_agent.tools[i].agent.before_model_callback.bound
           /\ Len(tr_agent.tools[j].agent.tools) = 2

----------------------------------------------------------------------------
(* agent.py: call_agent_async                                              *)

\* An event of the stream.  is_final is what is_final_response() returns;
\* content is "None", "no_parts" (content.parts empty or None) or "parts";
\* text is parts[0].text, with text_is_none for None; raises names the step of
\* the inspection that raises an Exception: "none", "is_final_response" or
\* "text" (parts[0] has no text attribute).
Event(is_final, content, text_is_none, text, raises) ==
    [is_final |-> is_final, content |-> content, text_is_none |-> text_is_none,
     text |-> text, raises |-> raises]

\* the string returned when final_text is empty
FallbackText == "could not generate a response"

\* event.is_final_response() and event.content and event.content.parts
carries_parts(event) == event.is_final /\ event.content = "parts"

carries_parts_any_event(event) == event.content = "parts"

\* The body of the async for: the try block, and the except clause that
\* swallows whatever the inspection raises.
process_event_ignoring_is_final(final_text, event) ==
    IF event.raises = "is_final_response" THEN final_text
    ELSE IF ~carries_parts_any_event(event) THEN final_text
    ELSE IF event.raises = "text" THEN final_text
    ELSE IF event.text_is_none THEN "" ELSE event.text

process_event(final_text, event) ==
    IF event.raises = "is_final_response" THEN final_text
    ELSE IF ~carries_parts(event) THEN final_text
    ELSE IF event.raises = "text" THEN final_text
    ELSE IF event.text_is_none THEN "" ELSE event.text

\* if not final_text: return the fallback; return final_text
returned_text(final_text) == IF final_text = "" THEN FallbackText ELSE final_text

MaxEvents == 3

EventsTried ==
    { Event(FALSE, "None", TRUE, "", "none"),
      Event(FALSE, "parts", FALSE, "A", "none"),
      Event(TRUE, "None", TRUE, "", "none"),
      Event(TRUE, "no_parts", TRUE, "", "none"),
      Event(TRUE, "parts", TRUE, "", "none"),
      Event(TRUE, "parts", FALSE, "", "none"),
      Event(TRUE, "parts", FALSE, "A", "none"),
      Event(TRUE, "parts", FALSE, "B", "none"),
      Event(TRUE, "parts", FALSE, "A", "is_final_response"),
      Event(TRUE, "parts", FALSE, "B", "text") }

\* runner.run_async yields one more event and the loop body handles it
YieldEvent ==
    /\ dp_pc = "consuming"
    /\ Len(dp_stream) < MaxEvents
    /\ \E event \in EventsTried :
           /\ dp_stream' = Append(dp_stream, event)
           /\ dp_final_text' = process_event(dp_final_text, event)
    /\ UNCHANGED <<dp_pc, dp_result>>
    /\ UNCHANGED <<timeVars, treeVars, indexVars, sessionVars, hookVars>>

\* the stream is exhausted: the code after the loop runs
StreamEnds ==
    /\ dp_pc = "consuming"
    /\ dp_pc' = "returned"
    /\ dp_result' = returned_text(dp_final_text)
    /\ UNCHANGED <<dp_stream, dp_final_text>>
    /\ UNCHANGED <<timeVars, treeVars, indexVars, sessionVars, hookVars>>

\* runner.run_async itself raises: nothing in call_agent_async catches it
TransportFault ==
    /\ dp_pc = "consuming"
    /\ dp_pc' = "raised"
    /\ UNCHANGED <<dp_stream, dp_final_text, dp_result>>
    /\ UNCHANGED <<timeVars, treeVars, indexVars, sessionVars, hookVars>>

DispatchNext == YieldEvent \/ StreamEnds \/ TransportFault

----------------------------------------------------------------------------
(* Claims about the dispatch (SpecDispatch)                                *)

\* a terminal event that carries non-empty response text
TerminalWithText(event) ==
    /\ event.raises = "none"
    /\ event.is_final
    /\ event.content = "parts"
    /\ ~event.text_is_none
    /\ event.text # ""

FirstTerminalWithText(stream) ==
    stream[CHOOSE i \in 1..Len(stream) :
               /\ TerminalWithText(stream[i])
               /\ \A j \in 1..(i - 1) : ~TerminalWithText(stream[j])]

\* C3: when the stream holds a terminal event with non-empty text, the call
\* returns the text of the first such event, whatever follows it.
C3_ReturnsFirstTerminalText ==
    ( /\ dp_pc = "returned"
      /\ \E i \in 1..Len(dp_stream) : TerminalWithText(dp_stream[i]) )
    => dp_result = FirstTerminalWithText(dp_stream).text

\* C4: a stream that ends without a terminal event carrying non-empty text
\* makes the call return the fallback string; the call raises only when the
\* runtime's stream itself fails.
C4_FallbackWithoutTerminalText ==
    /\ []( ( /\ dp_pc = "returned"
             /\ \A i \in 1..Len(dp_stream) : ~TerminalWithText(dp_stream[i]) )
           => dp_result = FallbackText )
    /\ [][(dp_pc = "consuming" /\ dp_pc' = "raised") => TransportFault]_dispatchVars

\* a full stream without terminal text: a non-terminal event with text, a
\* terminal event without content and a terminal event with empty text
C4_Witness ==
    /\ dp_pc = "returned"
    /\ Len(dp_stream) = 3
    /\ ~dp_stream[1].is_final /\ dp_stream[1].content = "parts" /\ dp_stream[1].text = "A"
    /\ dp_stream[2].is_final /\ dp_stream[2].content = "None"
    /\ dp_stream[3].is_final /\ dp_stream[3].content = "parts" /\ dp_stream[3].text = ""
    /\ dp_result = FallbackText

\* the first terminal event with non-empty text that follows the first event
\* whose inspection raises
LaterTerminalWithText(stream) ==
    LET m == CHOOSE i \in 1..Len(stream) :
                 /\ stream[i].raises # "none"
                 /\ \A j \in 1..(i - 1) : stream[j].raises = "none"
    IN  stream[CHOOSE i \in (m + 1)..Len(stream) :
                   /\ TerminalWithText(stream[i])
                   /\ \A j \in (m + 1)..(i - 1) : ~TerminalWithText(stream[j])]

\* C14: when an event whose inspection raises is followed later in the stream
\* by a terminal event with non-empty text, the call returns that later text.
C14_LaterTerminalTextSurvivesFault ==
    ( /\ dp_pc = "returned"
      /\ \E i, j \in 1..Len(dp_stream) :
             /\ i < j
             /\ dp_stream[i].raises # "none"
             /\ TerminalWithText(dp_stream[j]) )
    => dp_result = LaterTerminalWithText(dp_stream).text

RECURSIVE FinalTextAfter(_, _)
FinalTextAfter(final_text, stream) ==
    IF Len(stream) = 0 THEN final_text
    ELSE FinalTextAfter(process_event(final_text, Head(stream)), Tail(stream))

\* the part of C14 that is about the except clause alone: the call returns
\* what it would return for the stream without the events whose inspection
\* raises
FaultyEventsAreSkipped ==
    dp_pc = "returned" =>
        dp_result = returned_text(
            FinalTextAfter("", SelectSeq(dp_stream, LAMBDA e : e.raises = "none")))

----------------------------------------------------------------------------
(* indexer_ollama.py: extract_frames, build_video_structure,               *)
(* index_video_ollama; indexer.py: index_video                             *)
(*                                                                         *)
(* A duration is a float in the code; here it is counted in half seconds,  *)
(* so that clips ending between two whole seconds are covered.             *)

Take(s, n) == SubSeq(s, 1, IF Len(s) < n THEN Len(s) ELSE n)

Min(a, b) == IF a < b THEN a ELSE b

\* extract_frames: the timestamps (in seconds) it asks ffmpeg for:
\* num_frames = min(int(duration / interval_seconds) + 1, max_frames), and the
\* loop breaks at the first timestamp >= duration
candidate_timestamps(duration, interval_seconds, max_frames) ==
    LET num_frames == Min((duration \div (2 * interval_seconds)) + 1, max_frames)
        kept == {i \in 0..(num_frames - 1) : 2 * (i * interval_seconds) < duration}
    IN  [k \in 1..Cardinality(kept) |-> (k - 1) * interval_seconds]

\* timestamp_str of extract_frames
timestamp_str(timestamp) == FormatTimestamp(timestamp \div 60, timestamp % 60)

\* the frames ffmpeg wrote, in order: candidates whose frame_path exists
RECURSIVE frames_written(_, _)
frames_written(candidates, exists) ==
    IF Len(candidates) = 0 THEN <<>>
    ELSE (IF Head(exists) THEN <<timestamp_str(Head(candidates))>> ELSE <<>>)
             \o frames_written(Tail(candidates), Tail(exists))

\* one element of frames_analysis; scene_type is "other" throughout
FrameAnalysis(timestamp, is_scene_change) ==
    [timestamp |-> timestamp, is_scene_change |-> is_scene_change,
     scene_description |-> <<"d">>]

\* end_timestamp of the last frame: the clip duration in whole seconds
duration_timestamp(duration) ==
    FormatTimestamp(duration \div 120, (duration % 120) \div 2)

\* end_timestamp of frame i
end_timestamp(frames, i, duration) ==
    IF i + 1 <= Len(frames) THEN frames[i + 1].timestamp
    ELSE duration_timestamp(duration)

\* a boundary before every segment but the first of a chapter
chapter_boundary_ignoring_flag(is_scene_change, current_chapter_segments) ==
    Len(current_chapter_segments) > 0

\* analysis.get("is_scene_change", False) and current_chapter_segments
chapter_boundary_after_second(is_scene_change, current_chapter_segments) ==
    is_scene_change /\ Len(current_chapter_segments) > 1

chapter_boundary(is_scene_change, current_chapter_segments) ==
    is_scene_change /\ Len(current_chapter_segments) > 0

\* ChapterNode(title=f"chapter {len(chapters) + 1}",
\*             summary=current_chapter_segments[0].description[:100] + "...", ...)
new_chapter(chapters, current_chapter_segments) ==
    ChapterNode(<<"Chapter">>,
                <<"chapter", " ">> \o DecimalDigits(Len(chapters) + 1),
                Take(current_chapter_segments[1].description, 100) \o <<"...">>,
                current_chapter_segments)

\* " ".join(seg.description for seg in segments[:3])[:200] + "..."
RECURSIVE JoinSpace(_)
JoinSpace(parts) ==
    IF Len(parts) = 0 THEN <<>>
    ELSE IF Len(parts) = 1 THEN parts[1]
    ELSE parts[1] \o <<" ">> \o JoinSpace(Tail(parts))

overview_of(segments) ==
    Take(JoinSpace([i \in 1..Len(Take(segments, 3)) |-> segments[i].description]), 200)
        \o <<"...">>

\* children=chapters if len(chapters) > 1 else segments
root_children_from_one_chapter(chapters, segments) ==
    IF Len(chapters) >= 1 THEN chapters ELSE segments

root_children(chapters, segments) ==
    IF Len(chapters) > 1 THEN chapters ELSE segments

\* if not result.children: raise ValueError(...)
rejects_result_without_overview(result) ==
    Len(result.children) = 0 /\ Len(result.overview) = 0

rejects_result(result) == Len(result.children) = 0

NoResult == VideoAnalysisResult(<<>>, <<>>, <<>>)

MaxFrames == 4

FrameSecondsTried == {0, 10, 20, 30}

\* 0.5 s, 30 s, 30.5 s, 40 s and 100 minutes
DurationsTried == {1, 60, 61, 80, 12000}

IntervalsTried == {10, 20}

MaxFramesTried == {2, MaxFrames}

\* the frame lists build_video_structure is called with directly
FrameListsTried ==
    SeqsUpTo({FrameAnalysis(timestamp_str(s), b) :
                  s \in FrameSecondsTried, b \in BOOLEAN}, MaxFrames)

\* what response.parsed of index_video is
ParsedTried == {tree \in TreesTried : Len(tree.children) <= 1}

\* index_video_ollama up to "if not frames": the duration probe and
\* extract_frames, where each frame file may or may not have been written
ExtractFrames ==
    /\ ix_pc = "idle"
    /\ \E duration \in DurationsTried, interval_seconds \in IntervalsTried,
          max_frames \in MaxFramesTried :
          LET candidates == candidate_timestamps(duration, interval_seconds, max_frames)
          IN  \E exists \in [1..Len(candidates) -> BOOLEAN] :
                  LET frames == frames_written(candidates, exists)
                  IN  /\ ix_duration' = duration
                      /\ ix_frames' = [k \in 1..Len(frames) |->
                                          FrameAnalysis(frames[k], FALSE)]
                      /\ IF Len(frames) = 0
                         THEN ix_pc' = "raised" /\ ix_error' = "ValueError"
                         ELSE ix_pc' = "extracted" /\ ix_error' = ""
    /\ ix_entry' = "index_video_ollama"
    /\ UNCHANGED <<ix_i, ix_segments, ix_current, ix_chapters, ix_result>>
    /\ UNCHANGED <<timeVars, treeVars, dispatchVars, sessionVars, hookVars>>

\* index_video_ollama: analyze_frame_with_ollama on every frame, then the call
\* of build_video_structure, whose emptiness check passes
AnalyzeFrames ==
    /\ ix_pc = "extracted"
    /\ \E flags \in [1..Len(ix_frames) -> BOOLEAN] :
           ix_frames' = [k \in 1..Len(ix_frames) |->
                            FrameAnalysis(ix_frames[k].timestamp, flags[k])]
    /\ ix_pc' = "loop"
    /\ UNCHANGED <<ix_entry, ix_duration, ix_i, ix_segments, ix_current,
                   ix_chapters, ix_result, ix_error>>
    /\ UNCHANGED <<timeVars, treeVars, dispatchVars, sessionVars, hookVars>>

\* build_video_structure called on its own, up to the loop
CallBuildVideoStructure ==
    /\ ix_pc = "idle"
    /\ \E frames \in FrameListsTried, duration \in DurationsTried :
           /\ ix_frames' = frames
           /\ ix_duration' = duration
           /\ IF Len(frames) = 0
              THEN ix_pc' = "raised" /\ ix_error' = "ValueError"
              ELSE ix_pc' = "loop" /\ ix_error' = ""
    /\ ix_entry' = "build_video_structure"
    /\ UNCHANGED <<ix_i, ix_segments, ix_current, ix_chapters, ix_result>>
    /\ UNCHANGED <<timeVars, treeVars, dispatchVars, sessionVars, hookVars>>

\* one iteration of the for loop of build_video_structure
BuildLoop ==
    /\ ix_pc = "loop"
    /\ ix_i < Len(ix_frames)
    /\ LET i == ix_i + 1
           timestamp == ix_frames[i].timestamp
           end == end_timestamp(ix_frames, i, ix_duration)
           span == TimeSpan(timestamp, end)
           segment == SegmentNode(<<"Segment">>,
                                  <<"Other", " ", "(">> \o timestamp \o <<")">>,
                                  ix_frames[i].scene_description, span.value)
           split == chapter_boundary(ix_frames[i].is_scene_change, ix_current)
       IN  /\ ix_i' = i
           /\ IF timestamp = end
              THEN UNCHANGED <<ix_pc, ix_segments, ix_current, ix_chapters, ix_error>>
              ELSE IF span.status # "ok"
              THEN /\ ix_pc' = "raised"
                   /\ ix_error' = span.status
                   /\ UNCHANGED <<ix_segments, ix_current, ix_chapters>>
              ELSE /\ ix_chapters' = IF split
                                     THEN Append(ix_chapters,
                                                 new_chapter(ix_chapters, ix_current))
                                     ELSE ix_chapters
                   /\ ix_current' = IF split THEN <<segment>>
                                    ELSE Append(ix_current, segment)
                   /\ ix_segments' = Append(ix_segments, segment)
                   /\ UNCHANGED <<ix_pc, ix_error>>
    /\ UNCHANGED <<ix_entry, ix_duration, ix_frames, ix_result>>
    /\ UNCHANGED <<timeVars, treeVars, dispatchVars, sessionVars, hookVars>>

\* the rest of build_video_structure: the trailing chapter, the overview and
\* the VideoAnalysisResult
FinishBuild ==
    /\ ix_pc = "loop"
    /\ ix_i = Len(ix_frames)
    /\ LET chapters == IF Len(ix_current) > 0
                       THEN Append(ix_chapters, new_chapter(ix_chapters, ix_current))
                       ELSE ix_chapters
       IN  /\ ix_chapters' = chapters
           /\ ix_result' = VideoAnalysisResult(<<"video analysis result">>,
                                               overview_of(ix_segments),
                                               root_children(chapters, ix_segments))
    /\ ix_pc' = "built"
    /\ UNCHANGED <<ix_entry, ix_duration, ix_frames, ix_i, ix_segments, ix_current,
                   ix_error>>
    /\ UNCHANGED <<timeVars, treeVars, dispatchVars, sessionVars, hookVars>>

\* index_video_ollama after build_video_structure returned
CheckBuiltResult ==
    /\ ix_pc = "built"
    /\ ix_entry = "index_video_ollama"
    /\ IF rejects_result(ix_result)
       THEN ix_pc' = "raised" /\ ix_error' = "ValueError"
       ELSE ix_pc' = "returned" /\ ix_error' = ""
    /\ UNCHANGED <<ix_entry, ix_duration, ix_frames, ix_i, ix_segments, ix_current,
                   ix_chapters, ix_result>>
    /\ UNCHANGED <<timeVars, treeVars, dispatchVars, sessionVars, hookVars>>

\* index_video: response.parsed is a VideoAnalysisResult, or None when the
\* response could not be parsed, and then result.children raises
IndexVideo ==
    /\ ix_pc = "idle"
    /\ \/ \E parsed \in ParsedTried :
              /\ ix_result' = parsed
              /\ IF rejects_result(parsed)
                 THEN ix_pc' = "raised" /\ ix_error' = "ValueError"
                 ELSE ix_pc' = "returned" /\ ix_error' = ""
       \/ /\ ix_result' = NoResult
          /\ ix_pc' = "raised"
          /\ ix_error' = "AttributeError"
    /\ ix_entry' = "index_video"
    /\ UNCHANGED <<ix_duration, ix_frames, ix_i, ix_segments, ix_current, ix_chapters>>
    /\ UNCHANGED <<timeVars, treeVars, dispatchVars, sessionVars, hookVars>>

IndexNext ==
    \/ ExtractFrames
    \/ AnalyzeFrames
    \/ CallBuildVideoStructure
    \/ BuildLoop
    \/ FinishBuild
    \/ CheckBuiltResult
    \/ IndexVideo

----------------------------------------------------------------------------
(* app.py: the script, run from top to bottom on every interaction        *)

\* The tree an indexer returned for the bytes of one upload in one mode;
\* build numbers the indexer calls that returned, so that two trees of one
\* video differ.
IndexedVideo(video, mode, build) == [video |-> video, mode |-> mode, build |-> build]

NoIndexedVideo == IndexedVideo("None", "unset", 0)

\* InMemoryRunner(agent=video_agent, ...) with the artifact saved in it
VideoRunner(agent_of, artifact) == [agent_of |-> agent_of, artifact |-> artifact]

NoRunner == VideoRunner(NoIndexedVideo, "None")

\* st.session_state: has_indexed and has_runner tell whether the keys
\* "indexed_video" and "video_runner" are present
SessionState(has_indexed, indexed_video, video_bytes, mode_key, has_runner, video_runner) ==
    [has_indexed |-> has_indexed, indexed_video |-> indexed_video,
     video_bytes |-> video_bytes, mode_key |-> mode_key,
     has_runner |-> has_runner, video_runner |-> video_runner]

Served(status, tree, runner) == [status |-> status, tree |-> tree, runner |-> runner]

\* mode_key = "ollama" if use_ollama else "gemini"
mode_key_of(use_ollama) == IF use_ollama THEN "ollama" ELSE "gemini"

\* "indexed_video" not in st.session_state or
\* st.session_state.get("mode_key") != mode_key
needs_index(state, video_file, mode_key) ==
    ~state.has_indexed \/ state.mode_key # mode_key

\* initialize_video_session(video_bytes): the agent of
\* st.session_state["indexed_video"] in a new runner that stores video_bytes
initialize_video_session(state, video_bytes) ==
    VideoRunner(state.indexed_video, video_bytes)

MaxBuilds == 3

FilesTried == {"v1", "v2"}

\* a run with an empty uploader: only the hint is shown
RerunWithoutFile ==
    /\ \E use_ollama \in BOOLEAN : ss_ollama' = use_ollama
    /\ ss_file' = "None"
    /\ ss_served' = Served("no_file", NoIndexedVideo, NoRunner)
    /\ UNCHANGED <<ss_state, ss_builds>>
    /\ UNCHANGED <<timeVars, treeVars, dispatchVars, indexVars, hookVars>>

\* a run that skips the index block and renders from the session state
RerunCached ==
    /\ \E video_file \in FilesTried, use_ollama \in BOOLEAN :
           /\ ~needs_index(ss_state, video_file, mode_key_of(use_ollama))
           /\ ss_file' = video_file
           /\ ss_ollama' = use_ollama
    /\ ss_served' = IF ss_state.has_runner
                    THEN Served("served", ss_state.indexed_video, ss_state.video_runner)
                    ELSE Served("KeyError", NoIndexedVideo, NoRunner)
    /\ UNCHANGED <<ss_state, ss_builds>>
    /\ UNCHANGED <<timeVars, treeVars, dispatchVars, indexVars, hookVars>>

\* a run that enters the index block; it ends where the indexer, the session
\* initialisation or the warm-up raises, or renders
RerunIndexing ==
    /\ \E video_file \in FilesTried, use_ollama \in BOOLEAN,
          outcome \in {"index_raises", "initialize_raises", "warmup_raises", "ok"} :
           LET mode_key == mode_key_of(use_ollama)
               indexed == [ss_state EXCEPT
                               !.has_indexed = TRUE,
                               !.indexed_video =
                                   IndexedVideo(video_file, mode_key, ss_builds + 1),
                               !.video_bytes = video_file,
                               !.mode_key = mode_key]
               initialized == [indexed EXCEPT
                                   !.has_runner = TRUE,
                                   !.video_runner =
                                       initialize_video_session(indexed, video_file)]
           IN  /\ needs_index(ss_state, video_file, mode_key)
               /\ ss_file' = video_file
               /\ ss_ollama' = use_ollama
               /\ IF outcome = "index_raises"
                  THEN /\ UNCHANGED <<ss_state, ss_builds>>
                       /\ ss_served' = Served("raised", NoIndexedVideo, NoRunner)
                  ELSE /\ ss_builds < MaxBuilds
                       /\ ss_builds' = ss_builds + 1
                       /\ IF outcome = "initialize_raises"
                          THEN /\ ss_state' = indexed
                               /\ ss_served' = Served("raised", NoIndexedVideo, NoRunner)
                          ELSE /\ ss_state' = initialized
                               /\ ss_served' =
                                      IF outcome = "warmup_raises"
                                      THEN Served("raised", NoIndexedVideo, NoRunner)
                                      ELSE Served("served", initialized.indexed_video,
                                                  initialized.video_runner)
    /\ UNCHANGED <<timeVars, treeVars, dispatchVars, indexVars, hookVars>>

SessionNext == RerunWithoutFile \/ RerunCached \/ RerunIndexing

----------------------------------------------------------------------------
(* Claims about the session (Spec)                                         *)

\* C2: the tree and the runner of the session are built once for a video and
\* an indexing mode and reused by later runs with the same two, and they are
\* rebuilt when another video is uploaded or the mode changes: a run that
\* renders never serves the tree and agents of an earlier upload.
C2_TreeAndRunnerFollowUploadAndMode ==
    /\ []( ss_served.status = "served" =>
              /\ ss_served.tree.video = ss_file
              /\ ss_served.tree.mode = mode_key_of(ss_ollama)
              /\ ss_served.runner.agent_of = ss_served.tree )
    /\ [][ ( /\ ss_served.status = "served"
             /\ ss_served'.status = "served"
             /\ ss_file' = ss_file
             /\ ss_ollama' = ss_ollama )
           => (ss_builds' = ss_builds /\ ss_served'.tree = ss_served.tree) ]_sessionVars

\* C17: whenever the session state holds an indexed_video under the mode
\* selected, so that a run skips the index block, it also holds a runner built
\* from that indexed_video with that video's bytes as its artifact; and a run
\* that renders hands such a runner to the chat.
C17_CachedRunnerMatchesIndexedVideo ==
    /\ ( /\ ss_state.has_indexed
         /\ ss_state.mode_key = mode_key_of(ss_ollama) )
       => /\ ss_state.has_runner
          /\ ss_state.video_runner.agent_of = ss_state.indexed_video
          /\ ss_state.video_runner.artifact = ss_state.indexed_video.video
    /\ ss_served.status # "KeyError"
    /\ ss_served.status = "served" =>
           /\ ss_served.runner.agent_of = ss_served.tree
           /\ ss_served.runner.artifact = ss_served.tree.video

\* a run that skipped the index block handed the chat a runner built from
\* another tree than the one it rendered
StaleRunnerServed ==
    /\ ss_served.status = "served"
    /\ ss_served.runner.agent_of # ss_served.tree

\* a run that skipped the index block found no video_runner in the state
RunnerMissing == ss_served.status = "KeyError"

----------------------------------------------------------------------------
(* callbacks.py: AttachVideoToLlmRequestCallback.__call__                  *)

\* types.Blob(data=..., display_name="uploaded_video", mime_type="video/mp4")
Blob(data) == [data |-> data, display_name |-> "uploaded_video", mime_type |-> "video/mp4"]

NoBlob == [data |-> "None", display_name |-> "", mime_type |-> ""]

\* types.VideoMetadata(start_offset=f"{start_offset}s", end_offset=..., fps=1)
VideoMetadata(start_offset, end_offset, fps) ==
    [start_offset |-> DecimalDigits(start_offset) \o <<"s">>,
     end_offset |-> DecimalDigits(end_offset) \o <<"s">>,
     fps |-> fps]

NoVideoMetadata == [start_offset |-> <<>>, end_offset |-> <<>>, fps |-> 0]

\* types.Part: a text part has no inline_data, a video part no text
Part(text, inline_data, video_metadata) ==
    [text |-> text, inline_data |-> inline_data, video_metadata |-> video_metadata]

TextPart(text) == Part(text, NoBlob, NoVideoMetadata)

\* types.Content(role=..., parts=...); types.UserContent has the role "user"
Content(role, parts) == [role |-> role, parts |-> parts]

UserContent(parts) == Content("user", parts)

\* the block __call__ builds from the artifact loaded and the hook's pair
video_content(hook, video_part) ==
    Part("", Blob(video_part),
         VideoMetadata(ToSeconds(hook.start_time), ToSeconds(hook.end_time), 1))

\* a hook that puts its block in front of the contents
call_hook_prepending(hook, video_part, contents) ==
    <<UserContent(<<video_content(hook, video_part)>>)>> \o contents

\* llm_request.contents after __call__: one UserContent appended
call_hook(hook, video_part, contents) ==
    Append(contents, UserContent(<<video_content(hook, video_part)>>))

MaxContents == 2

MaxCalls == 2

\* what a request holds before the hook runs: the turns of the conversation
ContentsTried ==
    SeqsUpTo({Content("user", <<TextPart("q")>>), Content("model", <<TextPart("a")>>)},
             MaxContents)

----------------------------------------------------------------------------
(* Specification SpecHook: the model calls of one segment agent            *)

\* SegmentNode.to_agent binds the hook, initialize_video_session saves the
\* uploaded bytes as the artifact
BindHook ==
    /\ hk_pc = "unbound"
    /\ \E segment \in SegmentsTried, video_bytes \in FilesTried :
           /\ hk_hook' = to_agent(segment).before_model_callback
           /\ hk_artifact' = video_bytes
    /\ hk_pc' = "idle"
    /\ UNCHANGED <<hk_request, hk_sent>>
    /\ UNCHANGED <<timeVars, treeVars, dispatchVars, indexVars, sessionVars>>

\* the runtime prepares the request of the agent's next model call
PrepareRequest ==
    /\ hk_pc = "idle"
    /\ Len(hk_sent) < MaxCalls
    /\ hk_request' \in ContentsTried
    /\ hk_pc' = "ready"
    /\ UNCHANGED <<hk_hook, hk_artifact, hk_sent>>
    /\ UNCHANGED <<timeVars, treeVars, dispatchVars, indexVars, sessionVars>>

\* before_model_callback(callback_context, llm_request): it returns None, and
\* the request goes to the model as the hook left it
CallHook ==
    /\ hk_pc = "ready"
    /\ hk_request' = call_hook(hk_hook, hk_artifact, hk_request)
    /\ hk_sent' = Append(hk_sent, hk_request')
    /\ hk_pc' = "idle"
    /\ UNCHANGED <<hk_hook, hk_artifact>>
    /\ UNCHANGED <<timeVars, treeVars, dispatchVars, indexVars, sessionVars>>

HookNext == BindHook \/ PrepareRequest \/ CallHook

----------------------------------------------------------------------------
(* Claims about the hook (SpecHook)                                        *)

\* minutes * 60 + seconds of a timestamp MM:SS, read off its digits
WindowSeconds(t) ==
    (DigitValue(t[1]) * 10 + DigitValue(t[2])) * 60
        + DigitValue(t[4]) * 10 + DigitValue(t[5])

\* the block a hook bound to (start_time, end_time) is to attach
ExpectedBlock(start_time, end_time, artifact) ==
    [role |-> "user",
     parts |-> <<[text |-> "",
                  inline_data |-> [data |-> artifact,
                                   display_name |-> "uploaded_video",
                                   mime_type |-> "video/mp4"],
                  video_metadata |->
                      [start_offset |-> DecimalDigits(WindowSeconds(start_time)) \o <<"s">>,
                       end_offset |-> DecimalDigits(WindowSeconds(end_time)) \o <<"s">>,
                       fps |-> 1]]>>]

CarriesVideo(content) ==
    \E i \in 1..Len(content.parts) : content.parts[i].inline_data.data # "None"

\* C13: a call of a hook bound to (start, end) appends one block to the
\* request's contents, carrying the whole artifact with the window from
\* minutes*60+seconds of start to minutes*60+seconds of end at 1 frame per
\* second, and changes neither the entries before it, the artifact nor the
\* pair; every request sent has gained exactly one such block.
C13_HookAppendsOneWindowedBlock ==
    /\ [](\A k \in 1..Len(hk_sent) :
              /\ hk_sent[k][Len(hk_sent[k])] =
                     ExpectedBlock(hk_hook.start_time, hk_hook.end_time, hk_artifact)
              /\ Cardinality({i \in 1..Len(hk_sent[k]) : CarriesVideo(hk_sent[k][i])}) = 1)
    /\ [][(hk_pc = "ready" /\ hk_pc' = "idle") =>
              /\ Len(hk_request') = Len(hk_request) + 1
              /\ SubSeq(hk_request', 1, Len(hk_request)) = hk_request
              /\ hk_artifact' = hk_artifact
              /\ hk_hook' = hk_hook]_hookVars

\* two requests with different earlier turns have both been sent, by a hook
\* whose window does not start at the start of the clip
C13_Witness ==
    /\ Len(hk_sent) = 2
    /\ Len(hk_sent[1]) = 3
    /\ Len(hk_sent[2]) = 2
    /\ CarriesVideo(hk_sent[1][3])
    /\ CarriesVideo(hk_sent[2][2])
    /\ hk_hook.start_time # FormatTimestamp(0, 0)

----------------------------------------------------------------------------
(* Claims about indexing (SpecIndex)                                       *)

\* C7: neither indexer returns a tree without children: whenever the tree
\* produced has no children the call raises the ValueError of the emptiness
\* check, whatever its title and overview; in the frame pipeline also when
\* frames exist and every segment was skipped as zero-length.
C7_NoTreeWithoutChildren ==
    /\ []( (ix_entry \in {"index_video", "index_video_ollama"} /\ ix_pc = "returned")
              => Len(ix_result.children) > 0 )
    /\ [][ ( /\ ix_pc = "built"
             /\ ix_entry = "index_video_ollama"
             /\ Len(ix_result.children) = 0
             /\ ix_pc' # "built" )
           => (ix_pc' = "raised" /\ ix_error' = "ValueError") ]_indexVars
    /\ [][ ( /\ ix_pc = "idle"
             /\ ix_entry' = "index_video"
             /\ ix_error' # "AttributeError"
             /\ Len(ix_result'.children) = 0 )
           => (ix_pc' = "raised" /\ ix_error' = "ValueError") ]_indexVars

\* the frame pipeline raised on a tree built from frames that all gave
\* zero-length segments, although its overview is not empty
C7_Witness ==
    /\ ix_entry = "index_video_ollama"
    /\ ix_pc = "raised"
    /\ ix_error = "ValueError"
    /\ Len(ix_frames) > 0
    /\ ix_i = Len(ix_frames)
    /\ ix_segments = <<>>
    /\ Len(ix_result.children) = 0
    /\ Len(ix_result.overview) > 0

SpansOf(nodes) == [k \in 1..Len(nodes) |-> nodes[k].time_span]

Span(start_seconds, end_seconds) ==
    TimeSpanValue(timestamp_str(start_seconds), timestamp_str(end_seconds))

\* frames at 0, 10, 20 and 30 s, flagged false, true, false, true, handled to
\* the end for a clip that ends at 31 s or later
C8_Input ==
    /\ ix_pc = "built"
    /\ ix_frames = << FrameAnalysis(timestamp_str(0), FALSE),
                      FrameAnalysis(timestamp_str(10), TRUE),
                      FrameAnalysis(timestamp_str(20), FALSE),
                      FrameAnalysis(timestamp_str(30), TRUE) >>
    /\ ix_duration >= 62

C8_ClipEnd == duration_timestamp(ix_duration)

\* C8: frames at 0, 10, 20, 30 s flagged [false, true, false, true] give
\* exactly 2 chapters, [0-10, 10-20] and [20-30, 30-end].
C8_TwoChapters ==
    C8_Input =>
        /\ Len(ix_chapters) = 2
        /\ SpansOf(ix_chapters[1].children) = <<Span(0, 10), Span(10, 20)>>
        /\ SpansOf(ix_chapters[2].children) =
               <<Span(20, 30), TimeSpanValue(timestamp_str(30), C8_ClipEnd)>>

\* C8 as amended: the same frames give exactly 3 chapters, [0-10],
\* [10-20, 20-30] and [30-end], and these are the root's children.
C8_ThreeChapters ==
    C8_Input =>
        /\ Len(ix_chapters) = 3
        /\ SpansOf(ix_chapters[1].children) = <<Span(0, 10)>>
        /\ SpansOf(ix_chapters[2].children) = <<Span(10, 20), Span(20, 30)>>
        /\ SpansOf(ix_chapters[3].children) =
               <<TimeSpanValue(timestamp_str(30), C8_ClipEnd)>>
        /\ ix_result.children = ix_chapters

C8_Witness == C8_Input /\ Len(ix_segments) = 4 /\ Len(ix_result.children) = 3

\* C9: with no chapter or exactly one, the root's children are the flat list
\* of the segments emitted, never a one-element chapter list; with two or more
\* chapters they are the chapters in the order of their creation.
C9_CollapseRule ==
    ( /\ ix_entry \in {"build_video_structure", "index_video_ollama"}
      /\ ix_pc \in {"built", "returned"} ) =>
        /\ Len(ix_chapters) <= 1 =>
               /\ ix_result.children = ix_segments
               /\ \A k \in 1..Len(ix_result.children) :
                      ix_result.children[k].cls = "SegmentNode"
        /\ Len(ix_chapters) >= 2 =>
               /\ ix_result.children = ix_chapters
               /\ \A k \in 1..Len(ix_result.children) :
                      /\ ix_result.children[k].cls = "ChapterNode"
                      /\ ix_result.children[k].title =
                             <<"chapter", " ">> \o DecimalDigits(k)

\* one chapter of three segments was produced and the root holds the segments
C9_Witness ==
    /\ ix_pc = "built"
    /\ Len(ix_chapters) = 1
    /\ Len(ix_chapters[1].children) = 3
    /\ Len(ix_result.children) = 3
    /\ ix_result.children[1].cls = "SegmentNode"

\* several chapters were produced and the root holds them
SeveralChaptersReached ==
    /\ ix_pc = "returned"
    /\ Len(ix_chapters) >= 2
    /\ ix_result.children = ix_chapters

RECURSIVE ConcatChildren(_)
ConcatChildren(chapters) ==
    IF Len(chapters) = 0 THEN <<>>
    ELSE Head(chapters).children \o ConcatChildren(Tail(chapters))

\* C15: in the loop a chapter is started just before an emitted segment
\* exactly when the frame is flagged is_scene_change and the chapter in
\* progress holds a segment; after the final flush no chapter is empty and the
\* chapters' children, in chapter order, are the emitted segments in order.
C15_ChapterBoundaryRule ==
    /\ []( ( /\ ix_entry \in {"build_video_structure", "index_video_ollama"}
             /\ ix_pc \in {"built", "returned"} )
           => /\ \A k \in 1..Len(ix_chapters) : Len(ix_chapters[k].children) > 0
              /\ ConcatChildren(ix_chapters) = ix_segments )
    /\ [][ (ix_pc = "loop" /\ ix_pc' = "loop" /\ ix_i' = ix_i + 1) =>
              LET emitted == Len(ix_segments') = Len(ix_segments) + 1
                  started == Len(ix_chapters') = Len(ix_chapters) + 1
                  segment == ix_segments'[Len(ix_segments')]
              IN  /\ ~emitted =>
                         /\ ix_segments' = ix_segments
                         /\ ix_chapters' = ix_chapters
                         /\ ix_current' = ix_current
                  /\ emitted =>
                         /\ started <=> ( /\ ix_frames[ix_i'].is_scene_change
                                          /\ Len(ix_current) >= 1 )
                         /\ started =>
                                /\ SubSeq(ix_chapters', 1, Len(ix_chapters)) = ix_chapters
                                /\ ix_chapters'[Len(ix_chapters')].children = ix_current
                                /\ ix_current' = <<segment>>
                         /\ ~started =>
                                /\ ix_chapters' = ix_chapters
                                /\ ix_current' = Append(ix_current, segment) ]_indexVars

\* three frames flagged true, false, true gave a chapter of two segments and
\* a chapter of one: the flag on the first frame started no chapter
C15_Witness ==
    /\ ix_pc = "built"
    /\ Len(ix_frames) = 3
    /\ ix_frames[1].is_scene_change
    /\ ~ix_frames[2].is_scene_change
    /\ ix_frames[3].is_scene_change
    /\ Len(ix_segments) = 3
    /\ Len(ix_chapters) = 2
    /\ Len(ix_chapters[1].children) = 2
    /\ Len(ix_chapters[2].children) = 1

\* the frame timestamps increase strictly, in seconds
StrictlyIncreasing(frames) ==
    \A i \in 1..(Len(frames) - 1) :
        ToSeconds(frames[i].timestamp) < ToSeconds(frames[i + 1].timestamp)

\* the clip duration in whole seconds, as minutes:seconds
ClipEnd(duration) == FormatTimestamp((duration \div 2) \div 60, (duration \div 2) % 60)

\* the spans of the segments the frames are to yield: frame i to frame i + 1,
\* the last frame to the clip end, zero-length spans left out
RECURSIVE ExpectedSpans(_, _, _)
ExpectedSpans(frames, i, duration) ==
    IF i > Len(frames) THEN <<>>
    ELSE LET start == frames[i].timestamp
             end == IF i < Len(frames) THEN frames[i + 1].timestamp ELSE ClipEnd(duration)
         IN  (IF start = end THEN <<>> ELSE <<TimeSpanValue(start, end)>>)
                 \o ExpectedSpans(frames, i + 1, duration)

\* build_video_structure was called on frames with increasing timestamps
C16_Input ==
    /\ ix_entry \in {"build_video_structure", "index_video_ollama"}
    /\ Len(ix_frames) > 0
    /\ StrictlyIncreasing(ix_frames)

\* C16: frames with strictly increasing timestamps and a clip duration yield
\* one segment per frame, from its timestamp to the next frame's and for the
\* last frame to the clip duration in whole seconds, zero-length segments
\* left out; the segments are in chronological order and each ends where the
\* next starts.
C16_SegmentsFollowFrames ==
    C16_Input =>
        /\ ~(ix_pc = "raised" /\ ix_error = "ValidationError")
        /\ ix_pc \in {"built", "returned"} =>
               /\ SpansOf(ix_segments) = ExpectedSpans(ix_frames, 1, ix_duration)
               /\ \A k \in 1..Len(ix_segments) :
                      ToSeconds(ix_segments[k].time_span.start_time)
                          < ToSeconds(ix_segments[k].time_span.end_time)
               /\ \A k \in 1..(Len(ix_segments) - 1) :
                      ix_segments[k].time_span.end_time
                          = ix_segments[k + 1].time_span.start_time

\* the frames lie within a clip shorter than 100 minutes
WithinClip ==
    /\ ix_duration \div 2 < 6000
    /\ \A i \in 1..Len(ix_frames) : 2 * ToSeconds(ix_frames[i].timestamp) <= ix_duration

\* C16 for frames that lie within a clip shorter than 100 minutes
SegmentsFollowFramesWithinClip == WithinClip => C16_SegmentsFollowFrames

----------------------------------------------------------------------------
(* Specifications                                                          *)

\* The state before anything was constructed, yielded, indexed or uploaded
Init ==
    /\ ts_start = <<>>
    /\ ts_end = <<>>
    /\ ts_result = [status |-> "pending", value |-> NoTimeSpan]
    /\ tr_root = VideoAnalysisResult(<<>>, <<>>, <<>>)
    /\ tr_pc = "empty"
    /\ tr_agent = NoAgent
    /\ dp_stream = <<>>
    /\ dp_final_text = ""
    /\ dp_pc = "consuming"
    /\ dp_result = ""
    /\ ix_pc = "idle"
    /\ ix_entry = "none"
    /\ ix_duration = 0
    /\ ix_frames = <<>>
    /\ ix_i = 0
    /\ ix_segments = <<>>
    /\ ix_current = <<>>
    /\ ix_chapters = <<>>
    /\ ix_result = NoResult
    /\ ix_error = ""
    /\ ss_state = SessionState(FALSE, NoIndexedVideo, "None", "unset", FALSE, NoRunner)
    /\ ss_file = "None"
    /\ ss_ollama = FALSE
    /\ ss_builds = 0
    /\ ss_served = Served("idle", NoIndexedVideo, NoRunner)
    /\ hk_pc = "unbound"
    /\ hk_hook = NoCallback
    /\ hk_artifact = "None"
    /\ hk_request = <<>>
    /\ hk_sent = <<>>

SpecTime ==
    /\ Init
    /\ [][ConstructTimeSpan]_vars

SpecTree ==
    /\ Init
    /\ [][TreeNext]_vars

SpecDispatch ==
    /\ Init
    /\ [][DispatchNext]_vars

SpecIndex ==
    /\ Init
    /\ [][IndexNext]_vars

Spec ==
    /\ Init
    /\ [][SessionNext]_vars

SpecHook ==
    /\ Init
    /\ [][HookNext]_vars

====
